---- MODULE Spec2Model ----
(***************************************************************************)
(* Veterinary DICOM API: the two HTTP handlers (case-bundle and            *)
(* orthanc/series), the Orthanc service with its primary/fallback fetch,   *)
(* the UID validator and the in-memory case store.                         *)
(*                                                                         *)
(* Strings that the code inspects character by character (study UIDs) are  *)
(* sequences of one-character strings; all other strings are TLA+ strings. *)
(* JavaScript values that can be null, undefined, an array or a string are *)
(* records tagged by the field t.                                          *)
(***************************************************************************)
EXTENDS Integers, Sequences, FiniteSets, TLC

\* ------------------------------------------------------------------ bounds
\* Number of HTTP requests served in one behaviour (they may overlap).
MaxReqs == 2
\* Longest list-series answer of the archive.
MaxSeries == 2
\* Longest list of TaggedValue-groups given to extractSeriesUids on its own.
MaxGroups == 3
\* Longest string of freely chosen characters given to the validator on its
\* own (also used padded with digits to the lengths around the limit).
MaxUidChars == 3

\* --------------------------------------------------------- program constants
\* uid.length > 64 is rejected (utils/dicom.ts).
MaxUidLength == 64

\* ------------------------------------------------------------- JS values
Null == [t |-> "null"]
Undefined == [t |-> "undefined"]
Str(s) == [t |-> "string", v |-> s]
Num(n) == [t |-> "number", n |-> n]
Arr(s) == [t |-> "array", items |-> s]
Bool(b) == [t |-> "boolean", b |-> b]

\* typeof x === 'string'
IsString(x) == x.t = "string"

\* ------------------------------------------------------------ study UIDs
Digits == {"0", "1", "2", "3", "4", "5", "6", "7", "8", "9"}

\* Mutant: a dot is accepted wherever a digit is (/^[0-9.]+$/).
RegexStep_DotAnywhere(q, c) ==
  IF q = "fail" THEN "fail"
  ELSE IF c \in Digits \/ c = "." THEN "digits"
  ELSE "fail"

\* One step of the matcher of /^[0-9]+(\.[0-9]+)*$/ : "start" expects the
\* first digit, "digits" is inside a numeric component (the only accepting
\* state), "dot" has just read a dot and expects a digit.
RegexStep(q, c) ==
  IF q = "fail" THEN "fail"
  ELSE IF c \in Digits THEN "digits"
  ELSE IF c = "." /\ q = "digits" THEN "dot"
  ELSE "fail"

\* The matcher's state after reading uid[lo..hi] from state q, left to right
\* (the range is split in halves to keep the evaluation shallow).
RECURSIVE RegexRun(_, _, _, _)
RegexRun(q, uid, lo, hi) ==
  IF lo > hi THEN q
  ELSE IF lo = hi THEN RegexStep(q, uid[lo])
  ELSE LET mid == (lo + hi) \div 2
           left == RegexRun(q, uid, lo, mid)
       IN IF left = "fail" THEN "fail" ELSE RegexRun(left, uid, mid + 1, hi)

\* dicomUidRegex.test(uid)
dicomUidRegexTest(uid) == RegexRun("start", uid, 1, Len(uid)) = "digits"

\* Mutant: the length limit is forgotten.
isValidStudyInstanceUID_NoLengthLimit(uid) ==
  IF Len(uid) = 0 THEN FALSE ELSE dicomUidRegexTest(uid)

isValidStudyInstanceUID(uid) ==
  IF Len(uid) = 0 THEN FALSE                      \* !uid
  ELSE IF Len(uid) = 0 \/ Len(uid) > MaxUidLength THEN FALSE
  ELSE dicomUidRegexTest(uid)

\* ------------------------------------------------------------ case store
\* A CaseBundle is a record; labResults, an object whose keys are optional,
\* is the set of its <<key, value>> entries.
LunaUid ==
  <<
    "1", ".", "3", ".", "6", ".", "1", ".", "4", ".", "1", ".", "1", "4", "5", "1",
    "9", ".", "5", ".", "2", ".", "1", ".", "2", "1", "9", "3", ".", "7", "1", "7",
    "2", ".", "8", "4", "7", "2", "3", "6", "0", "9", "8", "5", "6", "5", "5", "8",
    "1", "0", "5", "7", "1", "2", "1", "1", "9", "5", "8", "7", "2", "9", "4", "5"
  >>

FluffyUid ==
  <<
    "1", ".", "2", ".", "8", "2", "6", ".", "0", ".", "1", ".", "3", "6", "8", "0",
    "0", "4", "3", ".", "8", ".", "1", "0", "5", "5", ".", "1", ".", "2", "0", "1",
    "1", "1", "1", "0", "3", "1", "1", "1", "1", "4", "8", "2", "8", "8", ".", "9",
    "8", "3", "6", "1", "4", "1", "4", ".", "7", "9", "3", "7", "9", "6", "3", "9"
  >>

MaxUid == <<"1", "2", "3">>

BuddyUid ==
  <<
    "2", ".", "1", "6", ".", "8", "4", "0", ".", "1", ".", "1", "1", "3", "6", "6",
    "9", ".", "6", "3", "2", ".", "2", "0", ".", "1", "2", "1", "1", ".", "1", "0",
    "0", "0", "0", "3", "5", "7", "7", "7", "5"
  >>

StoreKeys == {LunaUid, FluffyUid, MaxUid, BuddyUid}

Luna ==
  [studyInstanceUid |-> LunaUid,
   patient |-> [id |-> "P004", name |-> "Luna", species |-> "Canine",
                breed |-> "Mixed Breed", ageYears |-> 3, weightKg |-> "18.7",
                sex |-> "FS"],
   history |-> "Routine chest radiographs for pre-anesthetic screening. No clinical signs.",
   labResults |-> {},
   imaging |-> [studyInstanceUid |-> LunaUid,
                series |-> <<>>,
                sedationProtocol |-> "None required (conscious radiographs)"]]

Fluffy ==
  [studyInstanceUid |-> FluffyUid,
   patient |-> [id |-> "P001", name |-> "Fluffy", species |-> "Feline",
                breed |-> "Domestic Shorthair", ageYears |-> 10, weightKg |-> "4.2",
                sex |-> "FS"],
   history |-> "Straining to urinate, suspected UTI. Owner reports vocalizing when using litter box.",
   labResults |-> {<<"urinalysis", [culture |-> "E. coli", result |-> "Positive"]>>},
   imaging |-> [studyInstanceUid |-> FluffyUid,
                series |-> <<>>,
                sedationProtocol |-> "Dexmedetomidine 5 mcg/kg IM"]]

Max ==
  [studyInstanceUid |-> MaxUid,
   patient |-> [id |-> "P002", name |-> "Max", species |-> "Canine",
                breed |-> "Golden Retriever", ageYears |-> 5, weightKg |-> "32.5",
                sex |-> "M"],
   history |-> "Limping on right hind leg for 3 days. No known trauma. Possible CCL tear (common in breed).",
   labResults |-> {},
   imaging |-> [studyInstanceUid |-> MaxUid,
                series |-> <<"SERIES_UID_1", "SERIES_UID_2">>,
                sedationProtocol |-> "Propofol 6 mg/kg IV for positioning"]]

Buddy ==
  [studyInstanceUid |-> BuddyUid,
   patient |-> [id |-> "P003", name |-> "Buddy", species |-> "Canine",
                breed |-> "Labrador Retriever", ageYears |-> 7, weightKg |-> "28.3",
                sex |-> "M"],
   history |-> "Persistent cough for 2 weeks, exercise intolerance. Rule out cardiac disease vs respiratory pathology.",
   labResults |-> {},
   imaging |-> [studyInstanceUid |-> BuddyUid,
                series |-> <<"1.3.46.670589.11.0.0.11.4.2.0.8743.5.5396.2006120114285654497",
                             "1.3.46.670589.11.0.0.11.4.2.0.8743.5.5396.2006120114314125550",
                             "1.3.46.670589.11.0.0.11.4.2.0.8743.5.5396.2006120114262848496">>,
                sedationProtocol |-> "None (cooperative patient, conscious radiographs)"]]

\* The module-level object caseBundles as it is when the module is loaded.
InitialCaseBundles ==
  [k \in StoreKeys |->
     IF k = LunaUid THEN Luna
     ELSE IF k = FluffyUid THEN Fluffy
     ELSE IF k = MaxUid THEN Max
     ELSE Buddy]

\* ------------------------------------------------- DICOMweb series groups
SeriesTag == "0020000E"

\* Mutant: the last value of the list is taken instead of the first.
FirstSeriesValue_Last(s) ==
  IF SeriesTag \notin DOMAIN s THEN Undefined
  ELSE IF "Value" \notin DOMAIN s[SeriesTag] THEN Undefined
  ELSE IF Len(s[SeriesTag].Value) = 0 THEN Undefined
  ELSE s[SeriesTag].Value[Len(s[SeriesTag].Value)]

\* s['0020000E']?.Value?.[0]
FirstSeriesValue(s) ==
  IF SeriesTag \notin DOMAIN s THEN Undefined
  ELSE IF "Value" \notin DOMAIN s[SeriesTag] THEN Undefined
  ELSE IF Len(s[SeriesTag].Value) = 0 THEN Undefined
  ELSE s[SeriesTag].Value[1]

\* the callback of .map(): the string, or null
SeriesUidOrNull(s) ==
  IF IsString(FirstSeriesValue(s)) THEN FirstSeriesValue(s) ELSE Null

IsNotNull(x) == x # Null

StringOf(x) == x.v

\* series.map(...).filter(uid => uid !== null), as a list of strings
extractSeriesUids(series) ==
  LET mapped == [i \in 1..Len(series) |-> SeriesUidOrNull(series[i])]
      filtered == SelectSeq(mapped, IsNotNull)
  IN [i \in 1..Len(filtered) |-> StringOf(filtered[i])]

\* ------------------------------------------------------ archive answers
Servers == {"primary", "fallback"}

\* The base addresses of the two servers when ORTHANC_URL is not set.
primaryUrl == "http://localhost:8042"
fallbackUrl == "http://localhost:8042"

\* What `await fetch(url, {signal: AbortSignal.timeout(5000)})` can do:
\* reject (connection error, or the 5 s timeout fired), or resolve with a
\* response whose status is a success or not.
FetchOutcomes ==
  { [k |-> "throw", message |-> "fetch failed"],
    [k |-> "throw", message |-> "The operation was aborted due to timeout"],
    [k |-> "response", ok |-> FALSE, status |-> 500],
    [k |-> "response", ok |-> TRUE, status |-> 200] }

\* What `await findResponse.json()` can do: reject (the body is not JSON, or
\* the timeout fired while reading it), or yield the decoded body.
FindBodies ==
  { [k |-> "throw", message |-> "Unexpected token < in JSON"],
    [k |-> "throw", message |-> "The operation was aborted due to timeout"],
    [k |-> "value", json |-> Null],
    [k |-> "value", json |-> Arr(<<>>)],
    [k |-> "value", json |-> Arr(<<"id1">>)],
    [k |-> "value", json |-> Arr(<<"id1", "id2">>)] }

\* Series descriptors of a list-series answer: well formed, without
\* MainDicomTags, with MainDicomTags but no SeriesInstanceUID, and with a
\* SeriesInstanceUID that is not a string.
Descriptors ==
  { [ID |-> "a", MainDicomTags |-> [SeriesInstanceUID |-> Str("1.2.3.1")]],
    [ID |-> "b", MainDicomTags |-> [SeriesInstanceUID |-> Str("1.2.3.2")]],
    [ID |-> "c"],
    [ID |-> "d", MainDicomTags |-> [Modality |-> Str("CR")]],
    [ID |-> "e", MainDicomTags |-> [SeriesInstanceUID |-> Num(7)]] }

SeqsUpTo(S, n) == UNION { [1..m -> S] : m \in 0..n }

\* What `await seriesResponse.json()` can do.
SeriesBodies ==
  { [k |-> "throw", message |-> "Unexpected token < in JSON"],
    [k |-> "throw", message |-> "The operation was aborted due to timeout"],
    [k |-> "value", json |-> Null] }
  \cup { [k |-> "value", json |-> Arr(d)] : d \in SeqsUpTo(Descriptors, MaxSeries) }

\* ------------------------------------------------------------- the service
\* Evaluating series.MainDicomTags.SeriesInstanceUID raises a TypeError when
\* series.MainDicomTags is undefined.
DescriptorThrows(series) == "MainDicomTags" \notin DOMAIN series

\* series.MainDicomTags.SeriesInstanceUID, where it does not raise
DescriptorUid(series) ==
  IF "SeriesInstanceUID" \in DOMAIN series.MainDicomTags
  THEN series.MainDicomTags.SeriesInstanceUID
  ELSE Undefined

\* { '0020000E': { vr: 'UI', Value: [series.MainDicomTags.SeriesInstanceUID] } }
ToDicomWeb(series) ==
  (SeriesTag :> [vr |-> "UI", Value |-> <<DescriptorUid(series)>>])

\* Mutant: a body that cannot be read counts as an answer without series.
ConvertSeries_FailureAsEmpty(body) ==
  IF body.k = "throw" THEN Arr(<<>>)
  ELSE IF body.json.t # "array" THEN Null
  ELSE IF \E i \in 1..Len(body.json.items) : DescriptorThrows(body.json.items[i])
       THEN Null
  ELSE Arr([i \in 1..Len(body.json.items) |-> ToDicomWeb(body.json.items[i])])

\* Lines 110-123 of the service: the value fetchFromServer returns once the
\* list-series body was read (null when the conversion raises).
ConvertSeries(body) ==
  IF body.k = "throw" THEN Null
  ELSE IF body.json.t # "array" THEN Null          \* null.map(...) raises
  ELSE IF \E i \in 1..Len(body.json.items) : DescriptorThrows(body.json.items[i])
       THEN Null
  ELSE Arr([i \in 1..Len(body.json.items) |-> ToDicomWeb(body.json.items[i])])

\* Mutant: off by one, a single record ID counts as none (length <= 1).
StudyNotFound_OffByOne(studyIds) ==
  studyIds = Null \/ (studyIds.t = "array" /\ Len(studyIds.items) <= 1)

\* fetchFromServer line 94: !studyIds || studyIds.length === 0
StudyNotFound(studyIds) ==
  studyIds = Null \/ (studyIds.t = "array" /\ Len(studyIds.items) = 0)

\* Mutant: the test is inverted (=== null).
AttemptIsFinal_Inverted(result) == result = Null

\* Mutant: an empty list is not final (result?.length), like a failure.
AttemptIsFinal_NonEmpty(result) == result # Null /\ Len(result.items) > 0

\* Mutant: every result is final (!== undefined), the fallback is never asked.
AttemptIsFinal_Always(result) == TRUE

\* Mutant: no result is final, the next server is always asked too.
AttemptIsFinal_Never(result) == FALSE

\* fetchStudySeries lines 48 and 56: the result of an attempt is returned as
\* it is when it is not null.
AttemptIsFinal(result) == result # Null

\* Mutant: the fallback's result is dropped.
FallbackReturn_Dropped(fallbackResult) == Null

\* Mutant: an empty list is returned when the fallback failed too.
FallbackReturn_EmptyOnFailure(fallbackResult) ==
  IF fallbackResult # Null THEN fallbackResult ELSE Arr(<<>>)

\* fetchStudySeries lines 56-62: what is returned after the fallback attempt.
FallbackReturn(fallbackResult) ==
  IF AttemptIsFinal(fallbackResult) THEN fallbackResult ELSE Null

\* The outbound calls, as the log of one request records them.
FindCall(server, studyInstanceUid) ==
  [server |-> server, op |-> "POST /tools/find", studyInstanceUid |-> studyInstanceUid]

SeriesCall(server, studyId) ==
  [server |-> server, op |-> "GET /studies/{id}/series", studyId |-> studyId]

\* ------------------------------------------------------------- the routes
Endpoints == {"case-bundle", "series"}

InvalidUidBody == [error |-> "Invalid StudyInstanceUID format"]
CaseNotFoundBody == [error |-> "Case not found for study UID"]
UnableToFetchBody == [error |-> "Unable to fetch from Orthanc"]
InternalErrorBody == [error |-> "Internal server error"]

\* Mutant: a study without record gets the record of another study.
findCaseByStudyUid_DefaultCase(store, studyInstanceUid) ==
  IF studyInstanceUid \in DOMAIN store THEN store[studyInstanceUid] ELSE store[MaxUid]

\* findCaseByStudyUid: the record stored under the key, or undefined
findCaseByStudyUid(store, studyInstanceUid) ==
  IF studyInstanceUid \in DOMAIN store THEN store[studyInstanceUid] ELSE Undefined

\* Mutant: an empty list is written to the record too (if (seriesData)).
ShouldEnrich_AnyArray(seriesData) == seriesData # Null

\* caseBundle route line 48: seriesData && seriesData.length > 0
ShouldEnrich(seriesData) ==
  seriesData # Null /\ Len(seriesData.items) > 0

\* Mutant: the fetched identifiers are added to the list the record holds
\* (series.push(...seriesUids)) instead of replacing it.
EnrichedStore_Appends(store, studyInstanceUid, seriesData) ==
  IF ShouldEnrich(seriesData)
  THEN [store EXCEPT ![studyInstanceUid].imaging.series =
                        @ \o extractSeriesUids(seriesData.items)]
  ELSE store

\* caseBundle route lines 48-51: the store after the handler's assignment
\* caseBundle.imaging.series = seriesUids (caseBundle is the stored object).
EnrichedStore(store, studyInstanceUid, seriesData) ==
  IF ShouldEnrich(seriesData)
  THEN [store EXCEPT ![studyInstanceUid].imaging.series =
                        extractSeriesUids(seriesData.items)]
  ELSE store

\* JSON.stringify writes an undefined array element as null.
JsonValue(x) == IF x = Undefined THEN Null ELSE x

JsonGroup(g) ==
  [tag \in DOMAIN g |->
     [g[tag] EXCEPT !.Value = [i \in 1..Len(@) |-> JsonValue(@[i])]]]

\* Mutant: an empty list is answered like a failure (!seriesData?.length).
SeriesRouteBody_EmptyIsError(seriesData) ==
  IF seriesData = Null \/ Len(seriesData.items) = 0
  THEN UnableToFetchBody
  ELSE Arr([i \in 1..Len(seriesData.items) |-> JsonGroup(seriesData.items[i])])

\* orthanc route lines 102-113: the body given to res.json
SeriesRouteBody(seriesData) ==
  IF seriesData = Null
  THEN UnableToFetchBody
  ELSE Arr([i \in 1..Len(seriesData.items) |-> JsonGroup(seriesData.items[i])])

\* ------------------------------------------------------------------ state
VARIABLES
  caseBundles,   \* the module-level case store of mock-db/cases.ts
  req,           \* per request: where its handler is suspended and its locals
  calls,         \* per request: the outbound archive calls issued, in order
  resp,          \* per request: the responses sent, in order
  event,         \* the step taken last, with the input it consumed
  answered,      \* what an archive that never changes has answered so far
  groups,        \* argument of a stand-alone extractSeriesUids call
  uids,          \* its result
  candidate,     \* argument of a stand-alone isValidStudyInstanceUID call
  valid          \* its result

vars == <<caseBundles, req, calls, resp, event, answered, groups, uids, candidate, valid>>

\* The arguments and results of the stand-alone calls.
standalone == <<groups, uids, candidate, valid>>

Reqs == 1..MaxReqs

\* A UID longer than 64 characters that matches the grammar.
LongUid == [i \in 1..(MaxUidLength + 1) |-> "1"]

\* Path parameters the requests carry (Express never binds an empty one).
ReqUids ==
  { MaxUid, LunaUid, <<"1", ".", "2">>, <<"1", ".", ".", "2">>, LongUid }

IdleRequest ==
  [pc |-> "idle", endpoint |-> "", studyInstanceUid |-> <<>>, server |-> "",
   primaryResult |-> Undefined, fallbackResult |-> Undefined,
   seriesData |-> Undefined]

\* The handler is suspended on an await inside fetchFromServer.
Awaiting(pc) == pc \in {"awaitFind", "awaitFindJson", "awaitSeries", "awaitSeriesJson"}

Init ==
  /\ caseBundles = InitialCaseBundles
  /\ req = [r \in Reqs |-> IdleRequest]
  /\ calls = [r \in Reqs |-> <<>>]
  /\ resp = [r \in Reqs |-> <<>>]
  /\ event = [r |-> 0, step |-> "none"]
  /\ answered = <<>>
  /\ groups = <<>>
  /\ uids = Undefined
  /\ candidate = <<>>
  /\ valid = Undefined

\* Mutant: the return after the response is missing, the handler runs on
\* and responds a second time.
Respond_NoReturn(r, rq, status, body) ==
  /\ resp' = [resp EXCEPT ![r] =
                 Append(Append(@, [status |-> status, body |-> body]),
                        [status |-> status, body |-> body])]
  /\ req' = [req EXCEPT ![r] = [rq EXCEPT !.pc = "done"]]

\* res.status(status).json(body); the handler then returns.
Respond(r, rq, status, body) ==
  /\ resp' = [resp EXCEPT ![r] = Append(@, [status |-> status, body |-> body])]
  /\ req' = [req EXCEPT ![r] = [rq EXCEPT !.pc = "done"]]

\* fetchStudySeries line 47 up to the first await of fetchFromServer: the
\* find-study call to the primary server is issued.
BeginFetch(r, endpoint, studyInstanceUid) ==
  /\ req' = [req EXCEPT ![r] =
               [@ EXCEPT !.pc = "awaitFind", !.endpoint = endpoint,
                         !.studyInstanceUid = studyInstanceUid,
                         !.server = "primary"]]
  /\ calls' = [calls EXCEPT ![r] = Append(@, FindCall("primary", studyInstanceUid))]
  /\ UNCHANGED <<caseBundles, resp>>

\* The handler's continuation after `await orthancService.fetchStudySeries`.
Resume(r, rq, seriesData) ==
  LET uid == rq.studyInstanceUid
      rq2 == [rq EXCEPT !.seriesData = seriesData]
  IN IF rq.endpoint = "case-bundle"
     THEN LET store == EnrichedStore(caseBundles, uid, seriesData)
          IN /\ caseBundles' = store
             /\ Respond(r, rq2, 200, store[uid])
     ELSE /\ Respond(r, rq2, 200, SeriesRouteBody(seriesData))
          /\ UNCHANGED caseBundles

\* fetchFromServer returned `result` to fetchStudySeries (lines 47-62).
EndAttempt(r, rq, result) ==
  IF rq.server = "primary"
  THEN LET rq2 == [rq EXCEPT !.primaryResult = result]
       IN IF AttemptIsFinal(result)
          THEN Resume(r, rq2, result) /\ UNCHANGED calls
          ELSE /\ req' = [req EXCEPT ![r] =
                            [rq2 EXCEPT !.server = "fallback", !.pc = "awaitFind"]]
               /\ calls' = [calls EXCEPT ![r] =
                              Append(@, FindCall("fallback", rq.studyInstanceUid))]
               /\ UNCHANGED <<caseBundles, resp>>
  ELSE LET rq2 == [rq EXCEPT !.fallbackResult = result]
       IN Resume(r, rq2, FallbackReturn(result)) /\ UNCHANGED calls

\* ---------------------------------------------------------------- actions
\* GET /api/case-bundle/:studyInstanceUid, up to its first suspension
GetCaseBundle(r, studyInstanceUid) ==
  /\ req[r].pc = "idle"
  /\ \A q \in 1..(r - 1) : req[q].pc # "idle"
  /\ LET rq == [req[r] EXCEPT !.endpoint = "case-bundle",
                              !.studyInstanceUid = studyInstanceUid]
     IN IF ~isValidStudyInstanceUID(studyInstanceUid)
        THEN Respond(r, rq, 400, InvalidUidBody) /\ UNCHANGED <<caseBundles, calls>>
        ELSE IF findCaseByStudyUid(caseBundles, studyInstanceUid) = Undefined
        THEN Respond(r, rq, 404, CaseNotFoundBody) /\ UNCHANGED <<caseBundles, calls>>
        ELSE BeginFetch(r, "case-bundle", studyInstanceUid)
  /\ event' = [r |-> r, step |-> "GetCaseBundle", input |-> studyInstanceUid]
  /\ UNCHANGED standalone

\* GET /api/orthanc/series/:studyInstanceUid, up to its first suspension
GetOrthancSeries(r, studyInstanceUid) ==
  /\ req[r].pc = "idle"
  /\ \A q \in 1..(r - 1) : req[q].pc # "idle"
  /\ LET rq == [req[r] EXCEPT !.endpoint = "series",
                              !.studyInstanceUid = studyInstanceUid]
     IN IF ~isValidStudyInstanceUID(studyInstanceUid)
        THEN Respond(r, rq, 400, InvalidUidBody) /\ UNCHANGED <<caseBundles, calls>>
        ELSE BeginFetch(r, "series", studyInstanceUid)
  /\ event' = [r |-> r, step |-> "GetOrthancSeries", input |-> studyInstanceUid]
  /\ UNCHANGED standalone

\* `await fetch(studiesUrl, ...)` settles (lines 78-91).
FindSettles(r, outcome) ==
  /\ req[r].pc = "awaitFind"
  /\ IF outcome.k = "throw" \/ ~outcome.ok
     THEN EndAttempt(r, req[r], Null)
     ELSE /\ req' = [req EXCEPT ![r].pc = "awaitFindJson"]
          /\ UNCHANGED <<caseBundles, calls, resp>>
  /\ event' = [r |-> r, step |-> "FindSettles", server |-> req[r].server, input |-> outcome]
  /\ UNCHANGED standalone

\* `await findResponse.json()` settles (lines 93-103).
FindBodyRead(r, body) ==
  /\ req[r].pc = "awaitFindJson"
  /\ IF body.k = "throw"
     THEN EndAttempt(r, req[r], Null)
     ELSE IF StudyNotFound(body.json)
     THEN EndAttempt(r, req[r], Arr(<<>>))
     ELSE /\ req' = [req EXCEPT ![r].pc = "awaitSeries"]
          /\ calls' = [calls EXCEPT ![r] =
                         Append(@, SeriesCall(req[r].server, body.json.items[1]))]
          /\ UNCHANGED <<caseBundles, resp>>
  /\ event' = [r |-> r, step |-> "FindBodyRead", server |-> req[r].server, input |-> body]
  /\ UNCHANGED standalone

\* `await fetch(seriesUrl, ...)` settles (lines 101-108).
SeriesSettles(r, outcome) ==
  /\ req[r].pc = "awaitSeries"
  /\ IF outcome.k = "throw" \/ ~outcome.ok
     THEN EndAttempt(r, req[r], Null)
     ELSE /\ req' = [req EXCEPT ![r].pc = "awaitSeriesJson"]
          /\ UNCHANGED <<caseBundles, calls, resp>>
  /\ event' = [r |-> r, step |-> "SeriesSettles", server |-> req[r].server, input |-> outcome]
  /\ UNCHANGED standalone

\* `await seriesResponse.json()` settles (lines 110-123).
SeriesBodyRead(r, body) ==
  /\ req[r].pc = "awaitSeriesJson"
  /\ EndAttempt(r, req[r], ConvertSeries(body))
  /\ event' = [r |-> r, step |-> "SeriesBodyRead", server |-> req[r].server, input |-> body]
  /\ UNCHANGED standalone

\* Any archive: every await may settle in any way.
Next ==
  \/ \E r \in Reqs, u \in ReqUids : GetCaseBundle(r, u) /\ UNCHANGED answered
  \/ \E r \in Reqs, u \in ReqUids : GetOrthancSeries(r, u) /\ UNCHANGED answered
  \/ \E r \in Reqs, o \in FetchOutcomes : FindSettles(r, o) /\ UNCHANGED answered
  \/ \E r \in Reqs, b \in FindBodies : FindBodyRead(r, b) /\ UNCHANGED answered
  \/ \E r \in Reqs, o \in FetchOutcomes : SeriesSettles(r, o) /\ UNCHANGED answered
  \/ \E r \in Reqs, b \in SeriesBodies : SeriesBodyRead(r, b) /\ UNCHANGED answered

Spec == Init /\ [][Next]_vars

\* ------------------------------------------------------- timed-out awaits
\* List-series answers with at most one descriptor (of every kind): the
\* course of an invocation depends on an answer only through its kind.
ShortSeriesBodies ==
  { b \in SeriesBodies :
      b.k = "value" /\ b.json.t = "array" => Len(b.json.items) <= 1 }

\* The await on which request r is suspended settles. Every fetch carries
\* AbortSignal.timeout(5000), which also ends the reading of the body, so a
\* pending await settles at the latest when the timer fires.
Settles(r) ==
  \/ \E o \in FetchOutcomes : FindSettles(r, o) /\ UNCHANGED answered
  \/ \E b \in FindBodies : FindBodyRead(r, b) /\ UNCHANGED answered
  \/ \E o \in FetchOutcomes : SeriesSettles(r, o) /\ UNCHANGED answered
  \/ \E b \in ShortSeriesBodies : SeriesBodyRead(r, b) /\ UNCHANGED answered

LiveNext ==
  \/ \E r \in Reqs, u \in ReqUids : GetCaseBundle(r, u) /\ UNCHANGED answered
  \/ \E r \in Reqs, u \in ReqUids : GetOrthancSeries(r, u) /\ UNCHANGED answered
  \/ \E r \in Reqs : Settles(r)

LiveSpec == Init /\ [][LiveNext]_vars /\ \A r \in Reqs : WF_vars(Settles(r))

\* ---------------------------------------------------- faults in a handler
\* The catch block of a handler: 500 {error: "Internal server error"} on the
\* case-bundle route, {error: "Unable to fetch from Orthanc"} with the
\* default status on the series route.
CatchResponse(endpoint) ==
  IF endpoint = "case-bundle"
  THEN [status |-> 500, body |-> InternalErrorBody]
  ELSE [status |-> 200, body |-> UnableToFetchBody]

\* An unexpected error is raised in the try block before the handler's first
\* suspension; the catch block answers. (None of the calls modelled here
\* raises: the action stands for the programming errors the catch blocks are
\* written for.)
StartFaults(r, endpoint, studyInstanceUid) ==
  /\ req[r].pc = "idle"
  /\ \A q \in 1..(r - 1) : req[q].pc # "idle"
  /\ LET rq == [req[r] EXCEPT !.endpoint = endpoint,
                              !.studyInstanceUid = studyInstanceUid]
     IN Respond(r, rq, CatchResponse(endpoint).status, CatchResponse(endpoint).body)
  /\ event' = [r |-> r, step |-> "StartFaults", input |-> studyInstanceUid]
  /\ UNCHANGED <<caseBundles, calls>>
  /\ UNCHANGED standalone

\* The await of fetchStudySeries rejects with an unexpected error; the catch
\* block answers.
AwaitFaults(r) ==
  /\ Awaiting(req[r].pc)
  /\ Respond(r, req[r], CatchResponse(req[r].endpoint).status,
             CatchResponse(req[r].endpoint).body)
  /\ event' = [r |-> r, step |-> "AwaitFaults", input |-> req[r].studyInstanceUid]
  /\ UNCHANGED <<caseBundles, calls>>
  /\ UNCHANGED standalone

FaultNext ==
  \/ \E r \in Reqs, u \in ReqUids : GetCaseBundle(r, u) /\ UNCHANGED answered
  \/ \E r \in Reqs, u \in ReqUids : GetOrthancSeries(r, u) /\ UNCHANGED answered
  \/ \E r \in Reqs : Settles(r)
  \/ \E r \in Reqs, e \in Endpoints, u \in ReqUids :
       StartFaults(r, e, u) /\ UNCHANGED answered
  \/ \E r \in Reqs : AwaitFaults(r) /\ UNCHANGED answered

FaultSpec == Init /\ [][FaultNext]_vars /\ \A r \in Reqs : WF_vars(Settles(r))

\* ---------------------------------------------------------- static archive
\* An archive whose answers do not change: the answer to a question (study,
\* server, stage of the exchange) is fixed the first time it is given.
Question(r, stage) == <<req[r].studyInstanceUid, req[r].server, stage>>

StaticAnswer(question, answer) ==
  /\ question \in DOMAIN answered => answered[question] = answer
  /\ answered' = IF question \in DOMAIN answered
                 THEN answered
                 ELSE answered @@ (question :> answer)

\* The study a request may ask for: any for the first request; the later
\* requests repeat the first one's.
RepeatedUids(r) == IF r = 1 THEN ReqUids ELSE {req[1].studyInstanceUid}

StaticNext ==
  \/ \E r \in Reqs : \E u \in RepeatedUids(r) :
       GetCaseBundle(r, u) /\ UNCHANGED answered
  \/ \E r \in Reqs : \E u \in RepeatedUids(r) :
       GetOrthancSeries(r, u) /\ UNCHANGED answered
  \/ \E r \in Reqs, o \in FetchOutcomes :
       FindSettles(r, o) /\ StaticAnswer(Question(r, "find"), o)
  \/ \E r \in Reqs, b \in FindBodies :
       FindBodyRead(r, b) /\ StaticAnswer(Question(r, "find body"), b)
  \/ \E r \in Reqs, o \in FetchOutcomes :
       SeriesSettles(r, o) /\ StaticAnswer(Question(r, "series"), o)
  \/ \E r \in Reqs, b \in SeriesBodies :
       SeriesBodyRead(r, b) /\ StaticAnswer(Question(r, "series body"), b)

StaticSpec == Init /\ [][StaticNext]_vars

\* ------------------------------------------- extractSeriesUids on its own
OtherTag == "00080060"

\* TaggedValue-groups: without the series tag, with the tag but no value
\* list, with an empty value list, with a first value that is not a string,
\* and with a first value that is a string.
GroupKinds ==
  { (OtherTag :> [vr |-> "CS", Value |-> <<Str("CR")>>]),
    (SeriesTag :> [vr |-> "UI"]),
    (SeriesTag :> [vr |-> "UI", Value |-> <<>>]),
    (SeriesTag :> [vr |-> "UI", Value |-> <<Undefined>>]),
    (SeriesTag :> [vr |-> "UI", Value |-> <<Null>>]),
    (SeriesTag :> [vr |-> "UI", Value |-> <<Num(7)>>]),
    (SeriesTag :> [vr |-> "UI", Value |-> <<Num(7), Str("1.2.3.1")>>]),
    (SeriesTag :> [vr |-> "UI", Value |-> <<Str("1.2.3.1")>>]),
    (SeriesTag :> [vr |-> "UI", Value |-> <<Str("1.2.3.2")>>]),
    (SeriesTag :> [vr |-> "UI", Value |-> <<Str("1.2.3.2"), Str("1.2.3.1")>>]) }

ExtractInit ==
  /\ caseBundles = InitialCaseBundles
  /\ req = [r \in Reqs |-> IdleRequest]
  /\ calls = [r \in Reqs |-> <<>>]
  /\ resp = [r \in Reqs |-> <<>>]
  /\ event = [r |-> 0, step |-> "none"]
  /\ answered = <<>>
  /\ groups \in SeqsUpTo(GroupKinds, MaxGroups)
  /\ uids = Undefined
  /\ candidate = <<>>
  /\ valid = Undefined

\* orthancService.extractSeriesUids(groups)
CallExtract ==
  /\ uids = Undefined
  /\ uids' = Arr(extractSeriesUids(groups))
  /\ UNCHANGED <<caseBundles, req, calls, resp, event, answered, groups, candidate, valid>>

ExtractNext == CallExtract

ExtractSpec == ExtractInit /\ [][ExtractNext]_vars

\* --------------------------------------- isValidStudyInstanceUID on its own
\* Characters of the arguments: digits, the dot, a letter, a hyphen.
UidChars == {"0", "7", ".", "a", "-"}

Ones(n) == [i \in 1..n |-> "1"]

\* The arguments: every string of up to MaxUidChars characters, and each of
\* them with digits before or after it up to the lengths 64 and 65.
ValidateUids ==
  LET short == SeqsUpTo(UidChars, MaxUidChars)
  IN short
     \cup { Ones(n - Len(p)) \o p : p \in short, n \in {MaxUidLength, MaxUidLength + 1} }
     \cup { p \o Ones(n - Len(p)) : p \in short, n \in {MaxUidLength, MaxUidLength + 1} }

ValidateInit ==
  /\ caseBundles = InitialCaseBundles
  /\ req = [r \in Reqs |-> IdleRequest]
  /\ calls = [r \in Reqs |-> <<>>]
  /\ resp = [r \in Reqs |-> <<>>]
  /\ event = [r |-> 0, step |-> "none"]
  /\ answered = <<>>
  /\ groups = <<>>
  /\ uids = Undefined
  /\ candidate \in ValidateUids
  /\ valid = Undefined

\* isValidStudyInstanceUID(candidate)
CallValidate ==
  /\ valid = Undefined
  /\ valid' = Bool(isValidStudyInstanceUID(candidate))
  /\ UNCHANGED <<caseBundles, req, calls, resp, event, answered, groups, uids, candidate>>

ValidateNext == CallValidate

ValidateSpec == ValidateInit /\ [][ValidateNext]_vars

\* =================================================================== claims
NonEmptyArray(x) == x.t = "array" /\ Len(x.items) > 0

\* The request has got the result of fetchStudySeries.
Fetched(r) == req[r].pc = "done" /\ req[r].seriesData # Undefined

\* The UID grammar, stated on the characters: 1 to 64 characters, digits and
\* dots only, a digit first and last, no two dots in a row.
MatchesUidGrammar(uid) ==
  /\ Len(uid) \in 1..64
  /\ \A i \in 1..Len(uid) : uid[i] \in Digits \cup {"."}
  /\ uid[1] # "." /\ uid[Len(uid)] # "."
  /\ \A i \in 1..(Len(uid) - 1) : ~(uid[i] = "." /\ uid[i + 1] = ".")

\* The await that settled last failed at the network level: the fetch
\* rejected (connection error or timeout) or the status is not a success.
NetworkFailure(e) ==
  /\ e.step \in {"FindSettles", "SeriesSettles"}
  /\ IF e.input.k = "throw" THEN TRUE ELSE ~e.input.ok

\* The result of the request's attempt against the server.
AttemptResult(r, server) ==
  IF server = "primary" THEN req[r].primaryResult ELSE req[r].fallbackResult

CallsTo(r, server) == { i \in 1..Len(calls[r]) : calls[r][i].server = server }

\* C1: when the primary attempt ends with a non-empty series list,
\* fetchStudySeries returns exactly that list, no call goes to the fallback
\* server during the invocation, and a repeated call for the same study
\* against an archive whose answers do not change returns the same list.
C1_PrimaryListReturned ==
  \A r \in Reqs :
    NonEmptyArray(req[r].primaryResult) =>
      /\ req[r].pc = "done"
      /\ req[r].seriesData = req[r].primaryResult
      /\ CallsTo(r, "fallback") = {}
      /\ \A q \in Reqs :
           (Fetched(q) /\ req[q].studyInstanceUid = req[r].studyInstanceUid)
             => req[q].seriesData = req[r].seriesData

C1_Witness ==
  \E r \in Reqs, q \in Reqs :
    /\ r # q
    /\ Fetched(r) /\ Fetched(q)
    /\ req[q].studyInstanceUid = req[r].studyInstanceUid
    /\ NonEmptyArray(req[r].primaryResult)
    /\ Len(req[q].seriesData.items) = MaxSeries

\* C2: when the primary attempt ends Unavailable and the fallback attempt
\* ends with a non-empty series list, fetchStudySeries returns exactly the
\* fallback's list; a connection error, timeout or non-success status on
\* either call of the primary attempt ends it Unavailable and starts the
\* fallback attempt.
C2_FallbackListReturned ==
  \A r \in Reqs :
    /\ (req[r].primaryResult = Null /\ NonEmptyArray(req[r].fallbackResult)) =>
         /\ req[r].pc = "done"
         /\ req[r].seriesData = req[r].fallbackResult
    /\ (event.r = r /\ NetworkFailure(event) /\ event.server = "primary") =>
         /\ req[r].primaryResult = Null
         /\ req[r].pc = "awaitFind" /\ req[r].server = "fallback"
         /\ calls[r][Len(calls[r])] = FindCall("fallback", req[r].studyInstanceUid)

C2_Witness ==
  \E r \in Reqs :
    /\ req[r].pc = "done"
    /\ req[r].primaryResult = Null
    /\ NonEmptyArray(req[r].fallbackResult)
    /\ req[r].seriesData = req[r].fallbackResult

\* C3: fetchStudySeries returns null exactly when both the primary and the
\* fallback attempt ended Unavailable (returned null); otherwise it returns
\* an array, possibly empty: a find-study answer with zero matches gives the
\* empty array, never null.
C3_NullIffBothUnavailable ==
  \A r \in Reqs :
    /\ Fetched(r) =>
         /\ (req[r].seriesData = Null) <=>
              (req[r].primaryResult = Null /\ req[r].fallbackResult = Null)
         /\ req[r].seriesData # Null => req[r].seriesData.t = "array"
    /\ ( /\ event.r = r /\ event.step = "FindBodyRead"
         /\ event.input.k = "value"
         /\ event.input.json \in {Null, Arr(<<>>)} ) =>
         /\ Fetched(r)
         /\ req[r].seriesData = Arr(<<>>)

C3_Witness ==
  \E r \in Reqs, q \in Reqs :
    /\ Fetched(r) /\ req[r].seriesData = Null
    /\ CallsTo(r, "fallback") # {}
    /\ Fetched(q) /\ req[q].seriesData = Arr(<<>>)

\* C4: for a valid study identifier the series endpoint answers with the
\* generic body {error: "Unable to fetch from Orthanc"} exactly when both
\* attempts ended Unavailable, and with the series array otherwise (the
\* empty array when the archive reports zero matches); an error body is
\* never anything but the generic one.
C4_SeriesEndpointBodies ==
  \A r \in Reqs :
    (req[r].pc = "done" /\ req[r].endpoint = "series"
       /\ MatchesUidGrammar(req[r].studyInstanceUid)) =>
      /\ Len(resp[r]) = 1
      /\ resp[r][1].status = 200
      /\ (resp[r][1].body = UnableToFetchBody) <=>
           (req[r].primaryResult = Null /\ req[r].fallbackResult = Null)
      /\ "error" \in DOMAIN resp[r][1].body => resp[r][1].body = UnableToFetchBody
      /\ "error" \notin DOMAIN resp[r][1].body =>
           /\ resp[r][1].body.t = "array"
           /\ Len(resp[r][1].body.items) = Len(req[r].seriesData.items)
           /\ \A i \in 1..Len(resp[r][1].body.items) :
                resp[r][1].body.items[i][SeriesTag].Value[1] =
                  JsonValue(req[r].seriesData.items[i][SeriesTag].Value[1])
      /\ ( /\ event.r = r /\ event.step = "FindBodyRead"
           /\ event.input.k = "value" /\ event.input.json = Arr(<<>>) ) =>
           resp[r][1].body = Arr(<<>>)

C4_Witness ==
  \E r \in Reqs, q \in Reqs :
    /\ req[r].pc = "done" /\ req[r].endpoint = "series"
    /\ Len(resp[r]) = 1 /\ resp[r][1].body = UnableToFetchBody
    /\ CallsTo(r, "fallback") # {}
    /\ req[q].pc = "done" /\ req[q].endpoint = "series"
    /\ Len(resp[q]) = 1 /\ resp[q][1].body = Arr(<<>>)

\* C5: for a study in the case store, the case-bundle response when the
\* archive reports zero matches differs from the response when both archive
\* servers are Unavailable.
C5_NotFoundDiffersFromUnavailable ==
  \A r \in Reqs, q \in Reqs :
    ( /\ Fetched(r) /\ Fetched(q)
      /\ req[r].endpoint = "case-bundle" /\ req[q].endpoint = "case-bundle"
      /\ req[r].studyInstanceUid = req[q].studyInstanceUid
      /\ req[r].seriesData = Arr(<<>>)
      /\ req[q].seriesData = Null )
    => resp[r] # resp[q]

\* C6: on both endpoints a request whose identifier fails the UID grammar is
\* answered 400 {error: "Invalid StudyInstanceUID format"} and no outbound
\* archive call is made for it.
C6_InvalidUidNoCalls ==
  \A r \in Reqs :
    (req[r].pc # "idle" /\ ~MatchesUidGrammar(req[r].studyInstanceUid)) =>
      /\ req[r].pc = "done"
      /\ resp[r] = <<[status |-> 400, body |-> InvalidUidBody]>>
      /\ calls[r] = <<>>

C6_Witness ==
  \E r \in Reqs, q \in Reqs :
    /\ req[r].pc = "done" /\ req[r].endpoint = "case-bundle"
    /\ req[q].pc = "done" /\ req[q].endpoint = "series"
    /\ ~MatchesUidGrammar(req[r].studyInstanceUid)
    /\ ~MatchesUidGrammar(req[q].studyInstanceUid)
    /\ Len(req[q].studyInstanceUid) > 64
    /\ resp[r] = resp[q]

\* A series descriptor that carries a string SeriesInstanceUID.
HasStringUid(d) ==
  /\ "MainDicomTags" \in DOMAIN d
  /\ "SeriesInstanceUID" \in DOMAIN d.MainDicomTags
  /\ d.MainDicomTags.SeriesInstanceUID.t = "string"

\* The identifiers of the well-formed descriptors of an answer, in order.
RECURSIVE WellFormedIds(_)
WellFormedIds(ds) ==
  IF Len(ds) = 0 THEN <<>>
  ELSE (IF HasStringUid(Head(ds))
        THEN <<Head(ds).MainDicomTags.SeriesInstanceUID.v>>
        ELSE <<>>) \o WellFormedIds(Tail(ds))

\* The list-series answer the request has just read, decoded as an array.
JustReadSeries(r) ==
  /\ event.r = r /\ event.step = "SeriesBodyRead"
  /\ event.input.k = "value" /\ event.input.json.t = "array"

\* C7: for a study in the case store, when the archive returns a non-empty
\* list of series, the record returned by the case-bundle endpoint has as
\* series list exactly the well-formed identifiers of that answer, in order,
\* whatever the stored record held and however many descriptors are
\* malformed.
C7_ArchiveSeriesReplaceStoredList ==
  \A r \in Reqs :
    ( /\ JustReadSeries(r) /\ Len(event.input.json.items) > 0
      /\ req[r].endpoint = "case-bundle" ) =>
      /\ req[r].pc = "done"
      /\ Len(resp[r]) = 1
      /\ resp[r][1].body.imaging.series = WellFormedIds(event.input.json.items)

\* C8: the case-bundle response is determined by the static record of the
\* study and the outcome of the request's own fetch: it is the static record,
\* with the series list replaced when the fetch returned a non-empty list.
C8_ResponseFromStaticRecord ==
  \A r \in Reqs :
    (Fetched(r) /\ req[r].endpoint = "case-bundle") =>
      resp[r][1].body =
        EnrichedStore(InitialCaseBundles, req[r].studyInstanceUid,
                      req[r].seriesData)[req[r].studyInstanceUid]

\* C9: a list-series answer with malformed descriptors (no MainDicomTags, or
\* no SeriesInstanceUID string) still ends the attempt Found, with the
\* well-formed identifiers of the answer in order, and a malformed entry in
\* the primary's answer triggers no call to the fallback server.
C9_MalformedEntryDropped ==
  \A r \in Reqs :
    JustReadSeries(r) =>
      /\ AttemptResult(r, event.server).t = "array"
      /\ extractSeriesUids(AttemptResult(r, event.server).items) =
           WellFormedIds(event.input.json.items)
      /\ event.server = "primary" => CallsTo(r, "fallback") = {}

\* A TaggedValue-group whose first value of tag 0020000E is a string.
HasStringFirst(g) ==
  /\ SeriesTag \in DOMAIN g
  /\ "Value" \in DOMAIN g[SeriesTag]
  /\ Len(g[SeriesTag].Value) > 0
  /\ g[SeriesTag].Value[1].t = "string"

RECURSIVE ExpectedUids(_)
ExpectedUids(gs) ==
  IF Len(gs) = 0 THEN <<>>
  ELSE (IF HasStringFirst(Head(gs)) THEN <<Head(gs)[SeriesTag].Value[1].v>> ELSE <<>>)
       \o ExpectedUids(Tail(gs))

\* C10: extractSeriesUids returns exactly the string first values of tag
\* 0020000E, in input order; the other groups contribute nothing and change
\* neither the count nor the order of the identifiers; the call yields a list
\* for every input.
C10_ExtractSeriesUids ==
  uids # Undefined =>
    /\ uids.t = "array"
    /\ uids.items = ExpectedUids(groups)
    /\ Len(uids.items) = Cardinality({ i \in 1..Len(groups) : HasStringFirst(groups[i]) })
    /\ uids.items = extractSeriesUids(SelectSeq(groups, HasStringFirst))

C10_Witness ==
  /\ uids # Undefined
  /\ Len(groups) >= 3
  /\ HasStringFirst(groups[1]) /\ ~HasStringFirst(groups[2]) /\ HasStringFirst(groups[3])
  /\ Len(groups[3][SeriesTag].Value) = 2
  /\ uids.items = <<groups[1][SeriesTag].Value[1].v, groups[3][SeriesTag].Value[1].v>>
  /\ uids.items[1] # uids.items[2]

LastCall(log) == log[Len(log)]

\* The step issues the call that ends the primed log of request r, and the
\* conditions under which it may do so.
IssuesInOrder(r) ==
  LET c == LastCall(calls'[r])
      uid == req'[r].studyInstanceUid
  IN /\ Len(calls'[r]) = Len(calls[r]) + 1
     /\ SubSeq(calls'[r], 1, Len(calls[r])) = calls[r]
     /\ \/ /\ c = FindCall("primary", uid)
           /\ req[r].pc = "idle" /\ calls[r] = <<>>
        \/ /\ c.op = SeriesCall("", "").op
           /\ req[r].pc = "awaitFindJson" /\ req[r].server = c.server
           /\ LastCall(calls[r]) = FindCall(c.server, uid)
           /\ event'.r = r /\ event'.step = "FindBodyRead"
           /\ event'.input.k = "value" /\ event'.input.json.t = "array"
           /\ Len(event'.input.json.items) >= 1
        \/ /\ c = FindCall("fallback", uid)
           /\ Awaiting(req[r].pc) /\ req[r].server = "primary"
           /\ event'.r = r
           /\ req'[r].primaryResult = Null
           /\ CallsTo(r, "fallback") = {}

\* C11: within one invocation of fetchStudySeries a call is issued only by
\* the step that settles the previous one (or starts the invocation), a
\* list-series call only after the same server's find-study answer held at
\* least one record ID, a call to the fallback only after the primary attempt
\* returned null; no call is issued twice, so there are at most four.
C11_SequentialCalls ==
  /\ [](\A r \in Reqs :
          /\ Len(calls[r]) <= 4
          /\ \A i, j \in 1..Len(calls[r]) :
               (calls[r][i].server = calls[r][j].server /\ calls[r][i].op = calls[r][j].op)
                 => i = j
          /\ Awaiting(req[r].pc) => calls[r] # <<>>
          /\ calls[r] # <<>> => LastCall(calls[r]).server = req[r].server)
  /\ [][\A r \in Reqs : calls'[r] # calls[r] => IssuesInOrder(r)]_vars

C11_Witness ==
  \E r \in Reqs :
    /\ req[r].pc = "done"
    /\ Len(calls[r]) = 4
    /\ calls[r][2].server = "primary" /\ calls[r][3] = FindCall("fallback", req[r].studyInstanceUid)

\* The await that settled last was ended by the expiry of the timeout.
TimedOut(e) ==
  /\ e.step \in {"FindSettles", "SeriesSettles", "FindBodyRead", "SeriesBodyRead"}
  /\ e.input.k = "throw"
  /\ e.input.message = "The operation was aborted due to timeout"

\* C12: every invocation of fetchStudySeries returns: a request suspended in
\* fetchStudySeries eventually gets its result and responds, and the expiry
\* of a call's timeout ends the server attempt Unavailable (null), like a
\* connection failure.
C12_FetchReturns ==
  /\ \A r \in Reqs : Awaiting(req[r].pc) ~> Fetched(r)
  /\ [](\A r \in Reqs :
          (event.r = r /\ TimedOut(event)) => AttemptResult(r, event.server) = Null)

C12_Witness ==
  \E r \in Reqs :
    /\ Fetched(r)
    /\ event.r = r /\ TimedOut(event) /\ event.server = "fallback"
    /\ req[r].seriesData = Null

\* The await that settled last failed: the fetch rejected (connection error
\* or timeout), the status is not a success, or the body could not be read
\* or decoded.
CallFailed(e) ==
  \/ NetworkFailure(e)
  \/ /\ e.step \in {"FindBodyRead", "SeriesBodyRead"}
     /\ e.input.k = "throw"

\* C13: whichever way a call fails (connection error, non-success status,
\* timeout, unreadable body), the server attempt returns null: a failed
\* primary attempt is followed by the find-study call to the fallback, and a
\* failed fallback attempt makes fetchStudySeries return null to the handler,
\* which answers on its normal path.
C13_FailuresBecomeNull ==
  \A r \in Reqs :
    (event.r = r /\ CallFailed(event)) =>
      /\ AttemptResult(r, event.server) = Null
      /\ event.server = "primary" =>
           /\ req[r].pc = "awaitFind" /\ req[r].server = "fallback"
           /\ LastCall(calls[r]) = FindCall("fallback", req[r].studyInstanceUid)
           /\ resp[r] = <<>>
      /\ event.server = "fallback" =>
           /\ Fetched(r) /\ req[r].seriesData = Null
           /\ Len(resp[r]) = 1 /\ resp[r][1].status = 200

C13_Witness ==
  \E r \in Reqs :
    /\ event.r = r /\ event.step = "SeriesBodyRead" /\ event.input.k = "throw"
    /\ event.server = "primary"
    /\ req[r].pc = "awaitFind" /\ req[r].server = "fallback"

\* C14: when the primary's find-study call succeeds with zero record IDs,
\* fetchStudySeries returns the empty list at once: the find-study call to
\* the primary is the only call of the invocation, whatever the fallback
\* server holds for the study.
C14_PrimaryNotFoundIsTerminal ==
  \A r \in Reqs :
    /\ ( /\ event.r = r /\ event.step = "FindBodyRead" /\ event.server = "primary"
         /\ event.input.k = "value" /\ event.input.json = Arr(<<>>) ) =>
         /\ Fetched(r)
         /\ req[r].seriesData = Arr(<<>>)
         /\ calls[r] = <<FindCall("primary", req[r].studyInstanceUid)>>
    /\ req[r].primaryResult = Arr(<<>>) =>
         /\ Fetched(r)
         /\ req[r].seriesData = Arr(<<>>)
         /\ CallsTo(r, "fallback") = {}

C14_Witness ==
  \E r \in Reqs, q \in Reqs :
    /\ event.r = r /\ event.step = "FindBodyRead" /\ event.input.k = "value"
    /\ event.input.json = Arr(<<>>)
    /\ req[r].primaryResult = Arr(<<>>)
    /\ Fetched(q) /\ req[q].studyInstanceUid = req[r].studyInstanceUid
    /\ NonEmptyArray(req[q].fallbackResult)

\* C15: with the fallback address equal to the primary address, the result
\* of fetchStudySeries is the result of the single, first attempt against
\* that server, also when the server's availability changes between the two
\* attempts.
C15_FallbackHasNoEffect ==
  \A r \in Reqs :
    (Fetched(r) /\ fallbackUrl = primaryUrl) =>
      req[r].seriesData = req[r].primaryResult

\* C16: isValidStudyInstanceUID returns a boolean for every string, true
\* exactly for the strings of 1 to 64 characters made of digits and dots
\* with a digit first and last and no two dots in a row, and it changes
\* nothing but its result.
C16_ValidatorGrammar ==
  /\ [](valid # Undefined =>
          /\ valid.t = "boolean"
          /\ valid.b = MatchesUidGrammar(candidate))
  /\ [][valid' # valid =>
          UNCHANGED <<caseBundles, req, calls, resp, event, answered, groups, uids, candidate>>]_vars

C16_Witness ==
  /\ valid = Bool(TRUE)
  /\ Len(candidate) = 64
  /\ \E i \in 1..Len(candidate) : candidate[i] = "."

\* C17: a case-bundle request whose identifier passes the UID grammar but
\* has no record in the store is answered 404 {error: "Case not found for
\* study UID"} without any outbound call; a case-bundle request makes an
\* outbound call only for an identifier that is valid and has a record.
C17_UnknownStudyNoCalls ==
  \A r \in Reqs :
    (req[r].pc # "idle" /\ req[r].endpoint = "case-bundle") =>
      /\ ( /\ MatchesUidGrammar(req[r].studyInstanceUid)
           /\ req[r].studyInstanceUid \notin StoreKeys ) =>
           /\ req[r].pc = "done"
           /\ resp[r] = <<[status |-> 404, body |-> CaseNotFoundBody]>>
           /\ calls[r] = <<>>
      /\ calls[r] # <<>> =>
           /\ MatchesUidGrammar(req[r].studyInstanceUid)
           /\ req[r].studyInstanceUid \in StoreKeys

C17_Witness ==
  \E r \in Reqs, q \in Reqs :
    /\ req[r].pc = "done" /\ req[r].endpoint = "case-bundle"
    /\ MatchesUidGrammar(req[r].studyInstanceUid)
    /\ req[r].studyInstanceUid \notin StoreKeys
    /\ resp[r] = <<[status |-> 404, body |-> CaseNotFoundBody]>>
    /\ req[q].endpoint = "case-bundle" /\ calls[q] # <<>>

\* The list-series calls request r has issued to the server.
SeriesCallsTo(r, server) ==
  { i \in CallsTo(r, server) : calls[r][i].op = SeriesCall("", "").op }

\* C18: in one server attempt, a find-study answer with no record ID ends
\* the attempt with the empty list and without list-series call; an answer
\* with record IDs is followed by one list-series call, for the first ID; a
\* failed find-study call ends the attempt with null and without list-series
\* call; a failed list-series call ends the attempt with null.
C18_AttemptStages ==
  \A r \in Reqs :
    /\ \A s \in Servers : Cardinality(SeriesCallsTo(r, s)) <= 1
    /\ event.r = r =>
         /\ ( /\ event.step = "FindBodyRead" /\ event.input.k = "value"
              /\ event.input.json = Arr(<<>>) ) =>
              /\ AttemptResult(r, event.server) = Arr(<<>>)
              /\ SeriesCallsTo(r, event.server) = {}
         /\ ( /\ event.step = "FindBodyRead" /\ event.input.k = "value"
              /\ NonEmptyArray(event.input.json) ) =>
              /\ req[r].pc = "awaitSeries" /\ req[r].server = event.server
              /\ LastCall(calls[r]) = SeriesCall(event.server, event.input.json.items[1])
              /\ AttemptResult(r, event.server) = Undefined
         /\ ( /\ event.step \in {"FindSettles", "FindBodyRead"}
              /\ CallFailed(event) ) =>
              /\ AttemptResult(r, event.server) = Null
              /\ SeriesCallsTo(r, event.server) = {}
         /\ ( /\ event.step \in {"SeriesSettles", "SeriesBodyRead"}
              /\ CallFailed(event) ) =>
              /\ AttemptResult(r, event.server) = Null

C18_Witness ==
  \E r \in Reqs :
    /\ event.r = r /\ event.step = "SeriesSettles" /\ CallFailed(event)
    /\ event.server = "fallback"
    /\ calls[r][2] = SeriesCall("primary", "id1")
    /\ calls[r][4] = SeriesCall("fallback", "id1")
    /\ req[r].seriesData = Null

\* C19: whenever a server attempt ends Found, its result has one group per
\* series descriptor of the list-series answer, in order; every group maps
\* tag 0020000E to the type label "UI" and to a value list whose single
\* entry is a string, the descriptor's SeriesInstanceUID; extractSeriesUids
\* of the result yields one identifier per descriptor.
C19_FoundGroupsCarryStringUid ==
  \A r \in Reqs :
    (JustReadSeries(r) /\ AttemptResult(r, event.server).t = "array") =>
      LET found == AttemptResult(r, event.server).items
          descriptors == event.input.json.items
      IN /\ Len(found) = Len(descriptors)
         /\ \A i \in 1..Len(found) :
              /\ DOMAIN found[i] = {SeriesTag}
              /\ found[i][SeriesTag].vr = "UI"
              /\ Len(found[i][SeriesTag].Value) = 1
              /\ found[i][SeriesTag].Value[1].t = "string"
              /\ found[i][SeriesTag].Value[1] = descriptors[i].MainDicomTags.SeriesInstanceUID
         /\ Len(extractSeriesUids(found)) = Len(descriptors)

\* A record without its series list.
WithoutSeries(record) == [record EXCEPT !.imaging.series = <<>>]

\* The step is the continuation of a case-bundle request whose fetch
\* returned a non-empty list, and writes the identifiers extracted from it
\* to the series list of the record the request addresses.
WritesOwnSeries(r) ==
  /\ event'.r = r
  /\ req'[r].endpoint = "case-bundle"
  /\ Awaiting(req[r].pc) /\ req'[r].pc = "done"
  /\ NonEmptyArray(req'[r].seriesData)
  /\ caseBundles' =
       [caseBundles EXCEPT ![req'[r].studyInstanceUid].imaging.series =
                              extractSeriesUids(req'[r].seriesData.items)]

EnrichedByOwnFetch(r) ==
  /\ Fetched(r) /\ req[r].endpoint = "case-bundle"
  /\ NonEmptyArray(req[r].seriesData)

\* C21: however concurrent case-bundle requests interleave, a request whose
\* own fetch returned a non-empty list answers with a record whose series
\* list is exactly the identifiers extracted from its own fetch result,
\* whatever the other requests have written or write later to the record.
C21_ResponseCarriesOwnSeries ==
  \A r \in Reqs :
    EnrichedByOwnFetch(r) =>
      /\ Len(resp[r]) = 1
      /\ resp[r][1].status = 200
      /\ resp[r][1].body.imaging.series = extractSeriesUids(req[r].seriesData.items)
      /\ WithoutSeries(resp[r][1].body) =
           WithoutSeries(InitialCaseBundles[req[r].studyInstanceUid])

\* Request 1 started first and wrote last: the two requests overlapped.
C21_Witness ==
  /\ EnrichedByOwnFetch(1) /\ EnrichedByOwnFetch(2)
  /\ req[1].studyInstanceUid = req[2].studyInstanceUid
  /\ event.r = 1
  /\ Len(calls[1]) = 4 /\ Len(calls[2]) = 2
  /\ resp[1][1].body.imaging.series # resp[2][1].body.imaging.series
  /\ resp[2][1].body.imaging.series # <<>>
  /\ caseBundles[req[1].studyInstanceUid].imaging.series = resp[1][1].body.imaging.series

\* C22: every request that has arrived gets a response; a request never has
\* more than one response, has one exactly when its handler has ended, and a
\* response once sent is never followed or replaced by another; a fault
\* caught by the handler is answered with the generic body of the route (500
\* "Internal server error" on case-bundle, "Unable to fetch from Orthanc" on
\* the series route).
C22_ExactlyOneResponse ==
  /\ \A r \in Reqs : Awaiting(req[r].pc) ~> (Len(resp[r]) = 1)
  /\ [](\A r \in Reqs :
          /\ Len(resp[r]) <= 1
          /\ req[r].pc = "done" <=> Len(resp[r]) = 1
          /\ (event.r = r /\ event.step \in {"StartFaults", "AwaitFaults"}) =>
               resp[r] = <<CatchResponse(req[r].endpoint)>>)
  /\ [][\A r \in Reqs : resp[r] # <<>> => resp'[r] = resp[r]]_vars

C22_Witness ==
  \E r \in Reqs, q \in Reqs :
    /\ event.r = r /\ event.step = "AwaitFaults"
    /\ req[r].endpoint = "case-bundle"
    /\ resp[r] = <<[status |-> 500, body |-> InternalErrorBody]>>
    /\ calls[r] # <<>>
    /\ req[q].endpoint = "series" /\ Fetched(q)
    /\ resp[q] = <<[status |-> 200, body |-> UnableToFetchBody]>>

====
